---- MODULE Spec2Model ----
(***************************************************************************)
(* Model of src/vdrone.ino: a camera/DNN detection loop that hands a       *)
(* 16-byte payload to the ELTRES radio board when the board announces a    *)
(* transmission window.  setup() and loop() run on the main task; the      *)
(* board delivers eltres_event_cb / gga_event_cb asynchronously, so loop() *)
(* is split at every access to the variables it shares with the callbacks. *)
(***************************************************************************)
EXTENDS Integers, Sequences, FiniteSets, TLC

(* ---- program constants ---- *)
PROGRAM_STS_INIT == 0
PROGRAM_STS_RUNNING == 1
PROGRAM_STS_STOPPED == 3
LOW == 0
HIGH == 1
PAYLOAD_TYPE == 138
LEAP_SECONDS == 18
BLINK_MS == 1000
SLEEP_MS == 1000
PAYLOAD_LEN == 16

(* ---- bounds of the model ---- *)
MaxTicks == 2
MaxReady == 2

(* ---- input domains ---- *)
\* a uint32_t is kept as its two 16-bit halves <<high, low>>
HALF == 65536
Word(n) == <<n \div HALF, n % HALF>>
Latencies == {0, 500}
TickDelays == {SLEEP_MS + l : l \in Latencies}
RadioClocks == {Word(1000018)}
StackValues == {Word(5)}
QualValues == {0, 1}
ScoreValues == {0, 1}
FlagValuesEnc == {-32768, -257, -256, -1, 0, 1, 255, 256, 32767}
ClockValuesEnc == {Word(0), Word(17), Word(18), Word(19), Word(274), Word(65553),
                   Word(16777234), Word(1000018), <<32768, 5>>, <<HALF - 1, HALF - 1>>}
QualValuesEnc == {0, 1, 2, 255}
EltresEvents == {"GNSS_TMOUT", "IDLE", "SEND_READY", "SENDING",
                 "GNSS_UNRECEIVE", "GNSS_RECEIVE", "FAULT"}
CamOutcomes == {"ok", "capture_fail", "resize_fail", "convert_fail"}
SetupFailures == {"model_file", "dnnrt", "camera", "format"}
LoopPcs == {"loop", "chk", "clr", "pay"}

VARIABLES
  pc,                      \* position of the main task
  program_sts,             \* line 94
  gnss_recevie_timeout,    \* line 96
  last_change_blink_time,  \* line 98
  event_send_ready,        \* line 100
  payload,                 \* line 102, bytes 0..15
  last_gga_info,           \* line 110, its m_pos_status field
  flag,                    \* line 193
  led,                     \* the four LED pins
  value,                   \* line 353, inference score; a local, 0 outside its scope
  now,                     \* millis()
  gnss_time,               \* line 416, value used by the last encoding
  gnss_ok,                 \* whether get_gnss_time reported success
  startup_fail,            \* history: which start-up step failed
  nTicks,                  \* history: loop() invocations
  surplus,                 \* history: SEND_READY events delivered minus set_payload calls
  tick,                    \* history of the current/last loop() invocation
  last_toggle_time,        \* history: clock at the last blink of LED_ERR, -1 once the flag dropped
  held,                    \* history: timeout flag set ever since that blink
  toggle_gap,              \* history: this tick's blink follows the previous one by so many ms
  evt_since_handoff,       \* history: SEND_READY since the last set_payload
  last_fix                 \* history: m_pos_status of the latest GGA delivered, 0 before any

vars == <<pc, program_sts, gnss_recevie_timeout, last_change_blink_time,
          event_send_ready, payload, last_gga_info, flag, led, value, now,
          gnss_time, gnss_ok, startup_fail, nTicks, surplus, tick, last_toggle_time, held, toggle_gap,
          evt_since_handoff, last_fix>>

histVars == <<startup_fail, nTicks, surplus, tick,
              last_toggle_time, held, toggle_gap, evt_since_handoff, last_fix>>

ZeroPayload == [i \in 0..(PAYLOAD_LEN - 1) |-> 0]
AllLow == [run |-> LOW, gnss |-> LOW, snd |-> LOW, err |-> LOW]
NoTick == [ready0 |-> FALSE, evt |-> FALSE, handoffs |-> 0, writes |-> {},
           ok |-> FALSE, clip |-> {}]

(* ---- payload encoder, lines 414-446 ---- *)
\* variant: the leap seconds added instead of subtracted
utc_of_plus(t) ==
  IF t[2] + LEAP_SECONDS < HALF
    THEN <<t[1], t[2] + LEAP_SECONDS>>
    ELSE <<(t[1] + 1) % HALF, t[2] + LEAP_SECONDS - HALF>>

\* line 421: uint32_t subtraction, wrapping modulo 2^32 (borrow from the high half)
utc_of(t) ==
  IF t[2] >= LEAP_SECONDS
    THEN <<t[1], t[2] - LEAP_SECONDS>>
    ELSE <<(t[1] + HALF - 1) % HALF, t[2] + HALF - LEAP_SECONDS>>

\* lines 438-441: (uint8_t)((x >> s) & 0xff) for s = 24, 16, 8, 0
ShiftByte(x, s) ==
  IF s >= 16 THEN (x[1] \div (2 ^ (s - 16))) % 256
             ELSE (x[2] \div (2 ^ s)) % 256

\* (uint8_t)(f & 0xff) for a signed 16-bit f in two's complement
LowByte(f) == (IF f < 0 THEN f + 65536 ELSE f) % 256

setup_payload_detection(f, t, q) ==
  [i \in 0..(PAYLOAD_LEN - 1) |->
     CASE i = 0 -> PAYLOAD_TYPE
       [] i = 1 -> LowByte(f)
       [] i = 10 -> ShiftByte(utc_of(t), 24)
       [] i = 11 -> ShiftByte(utc_of(t), 16)
       [] i = 12 -> ShiftByte(utc_of(t), 8)
       [] i = 13 -> ShiftByte(utc_of(t), 0)
       [] i = 14 -> 0
       [] i = 15 -> q
       [] OTHER -> 0]

(* ---- state after construction of the globals ---- *)
Init ==
  /\ pc = "init"
  /\ program_sts = PROGRAM_STS_INIT
  /\ gnss_recevie_timeout = FALSE
  /\ last_change_blink_time = 0
  /\ event_send_ready = FALSE
  /\ payload = ZeroPayload
  /\ last_gga_info = 0
  /\ flag = 0
  /\ led = AllLow
  /\ value = 0
  /\ now = 0
  /\ gnss_time = Word(0)
  /\ gnss_ok = FALSE
  /\ startup_fail = "none"
  /\ nTicks = 0
  /\ surplus = 0
  /\ tick = NoTick
  /\ last_toggle_time = -1
  /\ held = FALSE
  /\ toggle_gap = -1
  /\ evt_since_handoff = FALSE
  /\ last_fix = 0

(* ---- setup(), lines 198-291 ---- *)
\* lines 203-224: LED initialisation and EltresAddonBoard.begin
SetupBeginTo(after_failure) ==
  /\ pc = "init"
  /\ \E ok \in BOOLEAN :
       IF ok
         THEN /\ led' = [run |-> HIGH, gnss |-> LOW, snd |-> LOW, err |-> LOW]
              /\ pc' = "setup_rest"
              /\ UNCHANGED <<program_sts, startup_fail>>
         ELSE /\ led' = [run |-> LOW, gnss |-> LOW, snd |-> LOW, err |-> HIGH]
              /\ program_sts' = PROGRAM_STS_STOPPED
              /\ startup_fail' = "radio"
              /\ pc' = after_failure
  /\ UNCHANGED <<gnss_recevie_timeout, last_change_blink_time, event_send_ready,
                 payload, last_gga_info, flag, value, now, gnss_time, gnss_ok,
                 nTicks, surplus, tick, last_toggle_time, held,
                 toggle_gap, evt_since_handoff, last_fix>>

\* variant: the return of line 223 missing, set-up carries on after a radio failure
SetupBeginFallThrough == SetupBeginTo("setup_rest")

\* line 223: return, so loop() is what runs next
SetupBegin == SetupBeginTo("loop")

\* lines 235-291: model file, DNNRT, camera, picture format; exit(0) on failure
SetupRest ==
  /\ pc = "setup_rest"
  /\ \E r \in SetupFailures \cup {"ok"} :
       IF r = "ok"
         THEN /\ program_sts' = PROGRAM_STS_RUNNING
              /\ pc' = "loop"
              /\ UNCHANGED startup_fail
         ELSE /\ startup_fail' = r
              /\ pc' = "exited"
              /\ UNCHANGED program_sts
  /\ UNCHANGED <<gnss_recevie_timeout, last_change_blink_time, event_send_ready,
                 payload, last_gga_info, flag, led, value, now, gnss_time,
                 gnss_ok, nTicks, surplus, tick,
                 last_toggle_time, held, toggle_gap, evt_since_handoff, last_fix>>

setup == SetupBegin \/ SetupRest

(* ---- radio callbacks, lines 116-191 ---- *)
\* callbacks are delivered once begin() has been called, while the task lives;
\* the model follows them up to the end of the last loop() invocation it runs
CallbacksLive ==
  /\ pc \in {"setup_rest"} \cup LoopPcs
  /\ ~(pc = "loop" /\ nTicks = MaxTicks)

\* variant: the flag is a pulse, withdrawn by whatever event comes next
TimeoutAfterPulse(e) == e = "GNSS_TMOUT"

\* lines 118-122 and 143-148: the GNSS-timeout flag after event e
TimeoutAfter(e) ==
  CASE e = "GNSS_TMOUT" -> TRUE
    [] e = "GNSS_RECEIVE" -> FALSE
    [] OTHER -> gnss_recevie_timeout

\* variant: the start of a transmission also withdraws the send-ready flag
ReadyAfterSending(e) ==
  CASE e = "SEND_READY" -> TRUE
    [] e = "SENDING" -> FALSE
    [] OTHER -> event_send_ready

\* lines 128-132: the send-ready flag after event e
ReadyAfter(e) == IF e = "SEND_READY" THEN TRUE ELSE event_send_ready

\* lines 126, 136, 141, 146: the LED pins after event e
LedAfter(e) ==
  CASE e = "IDLE" -> [led EXCEPT !.snd = LOW]
    [] e = "SENDING" -> [led EXCEPT !.snd = HIGH]
    [] e = "GNSS_UNRECEIVE" -> [led EXCEPT !.gnss = LOW]
    [] e = "GNSS_RECEIVE" -> [led EXCEPT !.gnss = HIGH]
    [] OTHER -> led

eltres_event_cb(e) ==
  /\ CallbacksLive
  /\ gnss_recevie_timeout' = TimeoutAfter(e)
  /\ event_send_ready' = ReadyAfter(e)
  /\ led' = LedAfter(e)
  /\ held' = (held /\ gnss_recevie_timeout')
  /\ last_toggle_time' = IF gnss_recevie_timeout' THEN last_toggle_time ELSE -1
  /\ IF e = "SEND_READY"
       THEN /\ surplus < MaxReady
            /\ surplus' = surplus + 1
            /\ tick' = [tick EXCEPT !.evt = TRUE]
            /\ evt_since_handoff' = TRUE
       ELSE UNCHANGED <<surplus, tick, evt_since_handoff>>
  /\ UNCHANGED <<pc, program_sts, last_change_blink_time, payload,
                 last_gga_info, flag, value, now, gnss_time, gnss_ok,
                 startup_fail, nTicks, toggle_gap, last_fix>>

\* variant: the copy of line 163 moved under the validity test of line 165
gga_event_cb_valid_only(q) ==
  /\ CallbacksLive
  /\ last_gga_info' = IF q # 0 THEN q ELSE last_gga_info
  /\ last_fix' = q
  /\ UNCHANGED <<pc, program_sts, gnss_recevie_timeout, last_change_blink_time,
                 event_send_ready, payload, flag, led, value, now, gnss_time,
                 gnss_ok>>
  /\ UNCHANGED <<startup_fail, nTicks, surplus, tick, last_toggle_time, held,
                 toggle_gap, evt_since_handoff>>

\* line 163: last_gga_info = *gga_info; the rest only prints
gga_event_cb(q) ==
  /\ CallbacksLive
  /\ last_gga_info' = q
  /\ last_fix' = q
  /\ UNCHANGED <<pc, program_sts, gnss_recevie_timeout, last_change_blink_time,
                 event_send_ready, payload, flag, led, value, now, gnss_time,
                 gnss_ok>>
  /\ UNCHANGED <<startup_fail, nTicks, surplus, tick, last_toggle_time, held,
                 toggle_gap, evt_since_handoff>>

EltresEvent == \E e \in EltresEvents : eltres_event_cb(e)
GgaEvent == \E q \in QualValues : gga_event_cb(q)

(* ---- loop(), lines 296-406 ---- *)
\* lines 56-67; the capture size is the QVGA size of the camera library
INPUT_WIDTH == 56
INPUT_HEIGHT == 56
INPUT_RESIZE_RATIO == 4
PICTURE_WIDTH == 320
PICTURE_HEIGTH == 240
PICTURE_CLIP_WIDTH == INPUT_WIDTH * INPUT_RESIZE_RATIO
PICTURE_CLIP_HEIGHT == INPUT_HEIGHT * INPUT_RESIZE_RATIO

\* int division of C: the quotient is truncated towards zero
IntDiv(a, b) == IF a >= 0 THEN a \div b ELSE -((-a) \div b)

\* variant: the corner is one past the last column and row
clip_rect_open ==
  LET x == IntDiv(PICTURE_WIDTH - PICTURE_CLIP_WIDTH, 2)
      y == IntDiv(PICTURE_HEIGTH - PICTURE_CLIP_HEIGHT, 2)
  IN [lefttop_x |-> x, lefttop_y |-> y,
      rightbottom_x |-> x + PICTURE_CLIP_WIDTH,
      rightbottom_y |-> y + PICTURE_CLIP_HEIGHT]

\* lines 320-323: the rectangle passed to clipAndResizeImageByHW
clip_rect ==
  LET x == IntDiv(PICTURE_WIDTH - PICTURE_CLIP_WIDTH, 2)
      y == IntDiv(PICTURE_HEIGTH - PICTURE_CLIP_HEIGHT, 2)
  IN [lefttop_x |-> x, lefttop_y |-> y,
      rightbottom_x |-> x + PICTURE_CLIP_WIDTH - 1,
      rightbottom_y |-> y + PICTURE_CLIP_HEIGHT - 1]

\* (int16_t)flag, line 393
ToInt16(x) == ((x + 32768) % 65536) - 32768

\* variant: the STOPPED case falls into the RUNNING one
InRunningCaseLoose == program_sts \in {PROGRAM_STS_RUNNING, PROGRAM_STS_STOPPED}

\* line 374: case PROGRAM_STS_RUNNING
InRunningCase == program_sts = PROGRAM_STS_RUNNING

\* variant: > in place of >=
BlinkDueStrict(now_time, last, thr) == (now_time - last) > thr

\* line 379
BlinkDue(now_time, last, thr) == (now_time - last) >= thr

\* variant: the else branch of lines 386-388 missing
ErrorLedKept(l) == l

\* line 387: digitalWrite(LED_ERR, LOW)
ErrorLedOff(l) == [l EXCEPT !.err = LOW]

\* lines 299-388 and 402-404: random flag, sleep(1), capture, clip/resize,
\* grayscale, inference, then switch (program_sts) and the error LED.  A failed
\* camera step returns from loop().  The step ends before the first access to
\* event_send_ready.
LoopStartWith(delays, thr) ==
  /\ pc = "loop"
  /\ nTicks < MaxTicks
  /\ nTicks' = nTicks + 1
  /\ flag' \in {0, 1}
  /\ \E d \in delays, c \in CamOutcomes, v \in ScoreValues :
       LET now_time == now + d
           t0 == [ready0 |-> event_send_ready, evt |-> FALSE, handoffs |-> 0,
                  writes |-> {}, ok |-> (c = "ok"),
                  clip |-> IF c = "capture_fail" THEN {} ELSE {clip_rect}]
       IN
       /\ now' = now_time
       /\ CASE c # "ok" ->
                 /\ pc' = "loop"
                 /\ tick' = t0
                 /\ toggle_gap' = -1
                 /\ UNCHANGED <<value, last_change_blink_time, led,
                                last_toggle_time, held>>
            [] c = "ok" /\ InRunningCase ->
                 /\ pc' = "chk"
                 /\ value' = v
                 /\ IF gnss_recevie_timeout
                      THEN IF BlinkDue(now_time, last_change_blink_time, thr)
                             THEN /\ last_change_blink_time' = now_time
                                  /\ led' = [led EXCEPT !.err = IF led.err = LOW THEN HIGH ELSE LOW]
                                  /\ tick' = [t0 EXCEPT !.writes = {"err"}]
                                  /\ last_toggle_time' = now_time
                                  /\ held' = TRUE
                                  /\ toggle_gap' = IF held THEN now_time - last_toggle_time ELSE -1
                             ELSE /\ tick' = t0
                                  /\ toggle_gap' = -1
                                  /\ UNCHANGED <<last_change_blink_time, led,
                                                 last_toggle_time, held>>
                      ELSE /\ led' = ErrorLedOff(led)
                           /\ tick' = [t0 EXCEPT !.writes = {"err"}]
                           /\ last_toggle_time' = -1
                           /\ held' = FALSE
                           /\ toggle_gap' = -1
                           /\ UNCHANGED last_change_blink_time
            [] OTHER ->
                 /\ pc' = "loop"
                 /\ value' = 0
                 /\ tick' = t0
                 /\ toggle_gap' = -1
                 /\ UNCHANGED <<last_change_blink_time, led, last_toggle_time, held>>
  /\ UNCHANGED <<program_sts, gnss_recevie_timeout, event_send_ready, payload,
                 last_gga_info, gnss_time, gnss_ok, startup_fail, surplus,
                 evt_since_handoff, last_fix>>

\* variant: the payload is prepared in every tick, flag or no flag
LoopChkAlways ==
  /\ pc = "chk"
  /\ pc' = "clr"
  /\ UNCHANGED <<program_sts, gnss_recevie_timeout, last_change_blink_time,
                 event_send_ready, payload, last_gga_info, flag, led, value,
                 now, gnss_time, gnss_ok>>
  /\ UNCHANGED histVars

\* variant: the test of line 390 inverted
LoopChkSkip ==
  /\ pc = "chk"
  /\ pc' = IF event_send_ready THEN "loop" ELSE "clr"
  /\ value' = IF event_send_ready THEN 0 ELSE value
  /\ UNCHANGED <<program_sts, gnss_recevie_timeout, last_change_blink_time,
                 event_send_ready, payload, last_gga_info, flag, led, now,
                 gnss_time, gnss_ok>>
  /\ UNCHANGED histVars

\* line 390: if (event_send_ready)
LoopChk ==
  /\ pc = "chk"
  /\ pc' = IF event_send_ready THEN "clr" ELSE "loop"
  /\ value' = IF event_send_ready THEN value ELSE 0
  /\ UNCHANGED <<program_sts, gnss_recevie_timeout, last_change_blink_time,
                 event_send_ready, payload, last_gga_info, flag, led, now,
                 gnss_time, gnss_ok>>
  /\ UNCHANGED histVars

\* variant: line 392 missing, the flag is left set
LoopClrKeep ==
  /\ pc = "clr"
  /\ pc' = "pay"
  /\ UNCHANGED <<program_sts, gnss_recevie_timeout, last_change_blink_time,
                 event_send_ready, payload, last_gga_info, flag, led, value,
                 now, gnss_time, gnss_ok>>
  /\ UNCHANGED histVars

\* variant: the flag is cleared and lines 393-395 are not reached
LoopClrDrop ==
  /\ pc = "clr"
  /\ pc' = "loop"
  /\ event_send_ready' = FALSE
  /\ value' = 0
  /\ UNCHANGED <<program_sts, gnss_recevie_timeout, last_change_blink_time,
                 payload, last_gga_info, flag, led, now, gnss_time, gnss_ok>>
  /\ UNCHANGED histVars

\* line 392: event_send_ready = false
LoopClr ==
  /\ pc = "clr"
  /\ pc' = "pay"
  /\ event_send_ready' = FALSE
  /\ UNCHANGED <<program_sts, gnss_recevie_timeout, last_change_blink_time,
                 payload, last_gga_info, flag, led, value, now, gnss_time,
                 gnss_ok, startup_fail, nTicks, surplus, tick, last_toggle_time, held, toggle_gap,
                 evt_since_handoff, last_fix>>

\* lines 393-395: setup_payload_detection((int16_t)flag) and set_payload;
\* gnss_time is whatever get_gnss_time stored, or the uninitialised local
LoopPay ==
  /\ pc = "pay"
  /\ pc' = "loop"
  /\ \E ok \in BOOLEAN :
     \E t \in IF ok THEN RadioClocks ELSE StackValues :
       /\ gnss_ok' = ok
       /\ gnss_time' = t
       /\ payload' = setup_payload_detection(ToInt16(flag), t, last_gga_info)
  /\ surplus' = surplus - 1
  /\ tick' = [tick EXCEPT !.handoffs = @ + 1]
  /\ evt_since_handoff' = FALSE
  /\ value' = 0
  /\ UNCHANGED <<program_sts, gnss_recevie_timeout, last_change_blink_time,
                 event_send_ready, last_gga_info, flag, led, now,
                 startup_fail, nTicks, last_toggle_time, held, toggle_gap,
                 last_fix>>

\* variant: no sleep(1) and no elapsed-time test, the LED flips in every pass
LoopStartBusy == LoopStartWith(Latencies, 0)

\* line 308: sleep(1); line 379: the 1000 ms threshold
LoopStart == LoopStartWith(TickDelays, BLINK_MS)

loop == LoopStart \/ LoopChk \/ LoopClr \/ LoopPay

Next == setup \/ loop \/ EltresEvent \/ GgaEvent

Spec == Init /\ [][Next]_vars

(* ---- the same program with its scheduling, for progress properties ---- *)
\* lines 299-388 with a camera and inference time of 0 ms: every tick lasts the
\* sleep(1) of line 308 and no more
LoopStartSteady == LoopStartWith({SLEEP_MS}, BLINK_MS)

loopSteady == LoopStartSteady \/ LoopChk \/ LoopClr \/ LoopPay

NextFair == setup \/ loopSteady \/ EltresEvent \/ GgaEvent

\* loop() is called again and again by the runtime, and each of its steps
\* returns; the callbacks come when the radio sends them, with no promise
SpecFair == Init /\ [][NextFair]_vars /\ WF_vars(loopSteady)

(* ---- the encoder on its own: inputs drawn from their types ---- *)
\* what payload[] may hold before a call: nothing yet, or an earlier record
EarlierPayloads == {ZeroPayload,
                    setup_payload_detection(-1, <<HALF - 1, HALF - 1>>, 255)}

\* gnss_time is what the local of line 416 holds after line 419: the radio
\* clock when gnss_ok, otherwise whatever the failed call left in it
InitEnc ==
  /\ pc = "enc"
  /\ flag \in FlagValuesEnc
  /\ gnss_time \in ClockValuesEnc
  /\ last_gga_info \in QualValuesEnc
  /\ payload \in EarlierPayloads
  /\ program_sts = PROGRAM_STS_RUNNING
  /\ gnss_recevie_timeout = FALSE
  /\ last_change_blink_time = 0
  /\ event_send_ready = FALSE
  /\ led = [AllLow EXCEPT !.run = HIGH]
  /\ value = 0
  /\ now = 0
  /\ gnss_ok \in BOOLEAN
  /\ startup_fail = "none"
  /\ nTicks = 0
  /\ surplus = 0
  /\ tick = NoTick
  /\ last_toggle_time = -1
  /\ held = FALSE
  /\ toggle_gap = -1
  /\ evt_since_handoff = FALSE
  /\ last_fix = last_gga_info

\* lines 414-446 applied to the drawn inputs
EncodeCall ==
  /\ pc = "enc"
  /\ pc' = "encoded"
  /\ payload' = setup_payload_detection(flag, gnss_time, last_gga_info)
  /\ UNCHANGED <<program_sts, gnss_recevie_timeout, last_change_blink_time,
                 event_send_ready, last_gga_info, flag, led, value, now,
                 gnss_time, gnss_ok>>
  /\ UNCHANGED histVars

NextEnc == EncodeCall

SpecEnc == InitEnc /\ [][NextEnc]_vars

(* ======================= properties ======================= *)
RUNNING == program_sts = PROGRAM_STS_RUNNING
STOPPED == program_sts = PROGRAM_STS_STOPPED
TickOver == pc = "loop" /\ nTicks > 0
IsCallback == EltresEvent \/ GgaEvent
IsMain == setup \/ loop

\* C1: while RUNNING, a tick whose capture and preprocessing succeed, that
\* starts with the send-ready flag set and sees no new SEND_READY event, ends
\* with the flag clear and exactly one set_payload call; such a tick that
\* starts with the flag clear makes no set_payload call.
C1_RoundTrip ==
  (TickOver /\ RUNNING /\ tick.ok /\ ~tick.evt) =>
     IF tick.ready0
       THEN tick.handoffs = 1 /\ ~event_send_ready
       ELSE tick.handoffs = 0

\* the second of two ticks: the first handed a payload off, no event since
C1_Witness ==
  /\ TickOver /\ RUNNING /\ tick.ok /\ ~tick.evt
  /\ nTicks = 2
  /\ payload[0] = PAYLOAD_TYPE
  /\ ~evt_since_handoff
  /\ tick.handoffs = 0

\* C2: with program_sts STOPPED no tick writes an LED or calls set_payload,
\* whatever the flags and the camera outcome; loop() never gets past the switch.
C2_StoppedIdle ==
  STOPPED => /\ tick.writes = {}
             /\ tick.handoffs = 0
             /\ pc \notin {"chk", "clr", "pay"}
             /\ payload = ZeroPayload

C2_Witness ==
  /\ STOPPED /\ TickOver /\ tick.ok
  /\ event_send_ready /\ gnss_recevie_timeout /\ tick.ready0

\* C3: the record is 16 bytes: 0x8A, the low byte of the flag, eight zero
\* bytes, the big-endian (clock - 18) mod 2^32, a zero byte, the fix quality.
\* The time bytes are checked by decoding them and adding the 18 back.
DecodedHigh == payload[10] * 256 + payload[11]
DecodedLow == payload[12] * 256 + payload[13]
PlusLeap == DecodedLow + 18
C3_Layout ==
  pc = "encoded" =>
    /\ DOMAIN payload = 0..15
    /\ \A i \in 0..15 : payload[i] \in 0..255
    /\ payload[0] = 138
    /\ (payload[1] - flag) % 256 = 0
    /\ (flag = -1 => payload[1] = 255)
    /\ \A i \in 2..9 : payload[i] = 0
    /\ PlusLeap % HALF = gnss_time[2]
    /\ (DecodedHigh + (PlusLeap \div HALF)) % HALF = gnss_time[1]
    /\ (gnss_time = Word(18) => \A i \in 10..13 : payload[i] = 0)
    /\ (gnss_time = Word(1000018) =>
          <<payload[10], payload[11], payload[12], payload[13]>> = <<0, 15, 66, 64>>)
    /\ payload[14] = 0
    /\ payload[15] = last_gga_info

\* flag -1 over an earlier record, with a clock below 18 (the subtraction wraps)
C3_Witness ==
  /\ pc = "encoded"
  /\ flag = -1
  /\ gnss_time = Word(17)
  /\ payload[1] = 255
  /\ payload[10] = 255 /\ payload[13] = 255
  /\ last_gga_info = 2

\* C4 as stated: set_payload calls never outnumber SEND_READY events, and each
\* call is preceded by a SEND_READY event that came after the previous call.
C4_EventAfterPreviousHandoff ==
  /\ [](surplus >= 0)
  /\ [][(surplus' = surplus - 1) => evt_since_handoff]_vars

\* C4 amended: set_payload calls never outnumber SEND_READY events, and the
\* flag is cleared only when set, that is after an event later than the
\* previous clear; that event may precede the previous set_payload call.
C4_HandoffsWithinEvents ==
  /\ surplus >= 0
  /\ (pc \in {"clr"} => event_send_ready)
  /\ (pc = "pay" => surplus >= 1)

\* one call made, a second event absorbed by the same flag
C4_Witness ==
  /\ TickOver /\ tick.handoffs = 1
  /\ surplus = 1
  /\ ~event_send_ready

\* C5: start-up that failed ends with program_sts STOPPED.
C5_FailureStops ==
  startup_fail # "none" => STOPPED

\* C6: after a failed start-up the error LED is on, and loop() updates no LED
\* and hands no payload off.
C6_ErrorLatched ==
  startup_fail # "none" =>
    /\ led.err = HIGH
    /\ tick.writes = {} /\ tick.handoffs = 0

\* C7 as stated: callbacks never clear a flag; the main task never sets a
\* flag and never writes FixInfo.
C7_SetOnlyHandler ==
  [][ /\ IsCallback => /\ (gnss_recevie_timeout => gnss_recevie_timeout')
                       /\ (event_send_ready => event_send_ready')
      /\ IsMain => /\ (gnss_recevie_timeout' => gnss_recevie_timeout)
                   /\ (event_send_ready' => event_send_ready)
                   /\ last_gga_info' = last_gga_info ]_vars

\* C7 amended: callbacks never clear the send-ready flag and clear the
\* GNSS-timeout flag only on GNSS_RECEIVE; the main task never writes the
\* GNSS-timeout flag, never sets the send-ready flag, never writes FixInfo.
C7_WriterDiscipline ==
  [][ /\ IsCallback => /\ (event_send_ready => event_send_ready')
                       /\ ((gnss_recevie_timeout /\ ~gnss_recevie_timeout')
                             => eltres_event_cb("GNSS_RECEIVE"))
      /\ IsMain => /\ gnss_recevie_timeout' = gnss_recevie_timeout
                   /\ (event_send_ready' => event_send_ready)
                   /\ last_gga_info' = last_gga_info ]_vars

\* a tick that blinked (flag set when read), the flag since cleared by
\* GNSS_RECEIVE, and the send-ready flag cleared by the tick itself
C7_Witness ==
  /\ pc = "loop" /\ tick.handoffs = 1 /\ ~event_send_ready
  /\ last_change_blink_time = now /\ now > 0
  /\ ~gnss_recevie_timeout /\ led.gnss = HIGH
  /\ last_gga_info # 0

\* C8: program_sts changes only from INIT, to RUNNING or STOPPED, and only in
\* setup(); no tick and no callback changes it.
C8_StateTransitions ==
  [][ program_sts' # program_sts =>
        /\ program_sts = PROGRAM_STS_INIT
        /\ program_sts' \in {PROGRAM_STS_RUNNING, PROGRAM_STS_STOPPED}
        /\ pc \in {"init", "setup_rest"} ]_vars

C8_Witness ==
  /\ STOPPED /\ nTicks = 2 /\ tick.ok
  /\ event_send_ready /\ led.snd = HIGH

\* C9: two consecutive flips of the error LED made while the GNSS-timeout
\* flag stayed set are at least 1000 ms apart.
C9_BlinkSpacing ==
  toggle_gap # -1 => toggle_gap >= 1000

C9_Witness ==
  /\ RUNNING /\ held /\ gnss_recevie_timeout
  /\ toggle_gap = 1000

\* C10 as stated: while the flag stays set every 1000 ms window holds a flip,
\* so consecutive flips are at most 1000 ms apart.
C10_EveryWindow ==
  toggle_gap # -1 => toggle_gap <= 1000

\* C10 amended: every tick that passes capture and preprocessing while
\* RUNNING and finds the flag set flips the error LED and restarts the
\* blink timer.
C10_BlinkEveryTick ==
  [][ (pc = "loop" /\ pc' = "chk" /\ gnss_recevie_timeout) =>
        /\ led'.err # led.err
        /\ last_change_blink_time' = now' ]_vars

\* two consecutive flips more than 1000 ms apart
C10_Witness ==
  /\ RUNNING /\ held /\ gnss_recevie_timeout
  /\ toggle_gap > 1000

\* C11: the record is complete whatever is unavailable, and the fields of an
\* unavailable input are zero: byte 15 when no fix update has come, the time
\* bytes 10..13 when get_gnss_time reported failure.
C11_DefaultsWhenUnavailable ==
  pc = "encoded" =>
    /\ DOMAIN payload = 0..15
    /\ (last_gga_info = 0 => payload[15] = 0)
    /\ (~gnss_ok => \A i \in 10..13 : payload[i] = 0)

\* C12: once start-up is over the running LED is on exactly when the state is
\* RUNNING: off when stopped and off after each of the five start-up failures.
C12_RunLedTracksState ==
  pc \notin {"init", "setup_rest"} =>
    (led.run = HIGH <=> program_sts = PROGRAM_STS_RUNNING)

\* C13 as stated: while RUNNING the error LED is off in every state in which
\* gnss_recevie_timeout is clear.
C13_OffWheneverClear ==
  (RUNNING /\ ~gnss_recevie_timeout) => led.err = LOW

\* C13: while RUNNING, a tick that gets past the camera steps and reads
\* gnss_recevie_timeout clear leaves the error LED off, and the LED is turned
\* on only by a tick that reads the flag set.
C13_OffAfterClearTick ==
  [][ /\ (pc = "loop" /\ pc' = "chk" /\ ~gnss_recevie_timeout) => led'.err = LOW
      /\ (RUNNING /\ led.err = LOW /\ led'.err = HIGH) =>
            (pc = "loop" /\ pc' = "chk" /\ gnss_recevie_timeout) ]_vars

\* C13 case: the LED blinked on in the first tick, the fix came back, and the
\* second tick switched it off
C13_Witness ==
  /\ RUNNING /\ pc = "chk" /\ nTicks = 2
  /\ ~gnss_recevie_timeout /\ led.gnss = HIGH
  /\ last_change_blink_time > 0 /\ last_change_blink_time < now
  /\ tick.writes = {"err"} /\ led.err = LOW

\* C14: byte 1 of every payload handed off carries the detection result of the
\* tick that built it: nonzero exactly when that tick's inference score is.
C14_FlagIsDetection ==
  [][(pc = "pay" /\ pc' = "loop") =>
        ((payload'[1] # 0) <=> (value # 0))]_vars

\* C15: a tick in which capture, crop/resize or grayscale conversion fails
\* changes nothing: state, both flags, fix info, payload, detection flag, blink
\* time and the four LEDs stay as they were, no inference, no hand-off.
C15_FailedTickFrame ==
  [][(pc = "loop" /\ nTicks' = nTicks + 1 /\ ~tick'.ok) =>
        /\ UNCHANGED <<program_sts, gnss_recevie_timeout, event_send_ready,
                       last_gga_info, payload, flag, last_change_blink_time,
                       led, value>>
        /\ pc' = "loop" /\ tick'.handoffs = 0]_vars

\* C16 as stated: while RUNNING, when sending starts, every SEND_READY event
\* before it has had a payload hand-off after it.
C16_HandoffBeforeSending ==
  [][(RUNNING /\ eltres_event_cb("SENDING")) => ~evt_since_handoff]_vars

\* C16: while RUNNING, a tick that gets past the camera steps answers the
\* events that came before it: started with the flag set it hands off one
\* payload, and a flag still set at its end was raised during that tick.
C16_AnsweredByGoodTick ==
  (TickOver /\ RUNNING /\ tick.ok) =>
    /\ (tick.ready0 => tick.handoffs = 1)
    /\ (event_send_ready => tick.evt)

\* C16 case: the first tick found the flag set and handed off, and sending has
\* started
C16_Witness ==
  /\ TickOver /\ RUNNING /\ nTicks = 1
  /\ tick.ok /\ tick.ready0 /\ ~tick.evt /\ tick.handoffs = 1
  /\ led.snd = HIGH /\ ~event_send_ready

\* C17: no SEND_READY is lost, however the callback interleaves with the read
\* and the clear of the flag.  An event that no hand-off has followed yet
\* leaves the flag set or a hand-off in progress, and a flag set when a tick
\* starts leads to a hand-off in that tick unless the tick fails in a camera
\* step.
C17_NoSignalLost ==
  /\ [](evt_since_handoff => (event_send_ready \/ pc = "pay"))
  /\ \A k \in 0..(MaxTicks - 1) :
       (RUNNING /\ pc = "loop" /\ event_send_ready /\ nTicks = k)
         ~> \/ (nTicks = k + 1 /\ tick.handoffs = 1)
            \/ (nTicks = k + 1 /\ pc = "loop" /\ ~tick.ok)

\* C17 case: one event before the tick and another between its start and the
\* clear of line 392; one hand-off follows both
C17_Witness ==
  /\ TickOver /\ RUNNING /\ tick.ok
  /\ tick.ready0 /\ tick.evt /\ tick.handoffs = 1
  /\ surplus = 1 /\ ~event_send_ready /\ ~evt_since_handoff

\* C18: gnss_recevie_timeout is a level: GNSS_TMOUT sets it, GNSS_RECEIVE
\* clears it, and nothing else (no tick, no other event) takes it back.
C18_TimeoutIsLevel ==
  [][ /\ eltres_event_cb("GNSS_TMOUT") => gnss_recevie_timeout'
      /\ eltres_event_cb("GNSS_RECEIVE") => ~gnss_recevie_timeout'
      /\ (gnss_recevie_timeout /\ ~eltres_event_cb("GNSS_RECEIVE"))
            => gnss_recevie_timeout' ]_vars

\* C18 case: the flag stayed set from one blink through a whole tick to the
\* next blink, with other events delivered
C18_Witness ==
  /\ pc = "chk" /\ RUNNING /\ gnss_recevie_timeout
  /\ held /\ toggle_gap # -1
  /\ led.snd = HIGH /\ led.gnss = LOW /\ last_gga_info # 0

\* C19: byte 15 of a payload is the fix quality of the latest fix update
\* delivered before it was built (0 for an invalid one, 0 when none came), and
\* a fix update changes nothing but last_gga_info.
C19_QualityOfLastFix ==
  [][ /\ (pc = "pay" /\ pc' = "loop") => payload'[15] = last_fix
      /\ last_fix' # last_fix =>
           UNCHANGED <<pc, program_sts, gnss_recevie_timeout, event_send_ready,
                       last_change_blink_time, payload, flag, led>> ]_vars

\* C19 case: a valid fix update was delivered and the payload built after it
\* carries its quality
C19_Witness ==
  /\ pc = "loop" /\ RUNNING /\ tick.handoffs = 1
  /\ payload[0] = PAYLOAD_TYPE /\ payload[15] = 1
  /\ last_fix = 1 /\ last_gga_info = 1

====
